---- MODULE Spec2Model ----
(***************************************************************************)
(* Model of the Bijoy -> Unicode conversion gate, the load-time header and *)
(* cell pipeline and the id/name column resolver of employee_reporter.     *)
(*                                                                         *)
(* A Python str is a sequence of code points (naturals).  A Python value   *)
(* is a record [kind, v]: kind "str" carries the code points in v, kind    *)
(* "num" a one-element tuple holding the number.  kind "raise" stands for  *)
(* an exception leaving the function, kind "none" for "not yet computed".  *)
(***************************************************************************)
EXTENDS Integers, Sequences, FiniteSets, TLC

VARIABLES
    entry,      \* which entry point this run exercises: "gate", "load", "resolve", "records",
                \* "surface", "views"
    value,      \* gate: the cell value / header handed to a gate
    uc,         \* the external converter: text -> outcome, as far as it was asked
    result,     \* gate: [gate |-> which gate ran, ret |-> what it returned]
    rawCols,    \* load: df.columns as read from the sheet (strings)
    rawCells,   \* load: the cell values as read from the sheet
    unicode_cols, \* load: header list after conversion and de-duplication
    cells,      \* load: cell values after conversion
    prev,       \* load: [cols, cells] before the latest pass
    passes,     \* load: how many times the pipeline has been applied
    load_error, \* load: TRUE when load_and_process_excel raised
    columns,    \* resolver: the header list handed to _detect_id_name_cols
    detected,   \* resolver: [done, id_idx, name_idx, name_found]
    frame,      \* records: the processed table [cols, rows] handed to listing / export
    employees,  \* records: [done, list] - what get_employee_list(df) returned
    export,     \* records: the outcome of one export call on df
    surfaces,   \* surfaces: what one pipeline made of value as cell, header, index label
    session,    \* views: request.session as [excel_path, original_filename]
    disk,       \* views: the uploaded files that exist (os.path.exists)
    uploads,    \* views: how many uploads were written (names the next file)
    requests,   \* views: how many requests the session has made
    response    \* views: the latest request and the answer it got

vars == <<entry, value, uc, result, rawCols, rawCells, unicode_cols, cells, prev,
          passes, load_error, columns, detected, frame, employees, export,
          surfaces, session, disk, uploads, requests, response>>

gateVars == <<value, uc, result>>
loadVars == <<rawCols, rawCells, unicode_cols, cells, prev, passes, load_error>>
resolveVars == <<columns, detected>>
recordVars == <<frame, employees, export>>
surfaceVars == <<surfaces>>
sessionVars == <<session, disk, uploads, requests, response>>

\* ---------------------------------------------------------------- bounds
MaxLen == 3        \* longest gate input string
MaxOutLen == 3     \* longest converter output
MaxCols == 3       \* most columns of a loaded sheet
MaxHeaders == 5    \* longest header list handed to the resolver
MaxRows == 2       \* most rows of a table handed to listing / export
MaxRequests == 4   \* most requests made on one session

\* ------------------------------------------------------- Python values
PyStr(s) == [kind |-> "str", v |-> s]
PyNum(n) == [kind |-> "num", v |-> <<n>>]
PyNone == [kind |-> "none", v |-> <<>>]
PyRaise == [kind |-> "raise", v |-> <<>>]

\* Outcome of one call of uc.convert_bijoy_to_unicode
ConvOk(s) == [ok |-> TRUE, text |-> s]
ConvFail == [ok |-> FALSE, text |-> <<>>]

Strings(chars, n) == UNION {[1..k -> chars] : k \in 0..n}

\* ------------------------------------------------ Python str built-ins
\* str.isspace / the characters str.strip() removes (code points < 0x0A00)
isspace(c) == c \in {9, 10, 11, 12, 13, 28, 29, 30, 31, 32, 133, 160}

\* str.isalpha for ASCII and the Bengali block (general category L*)
isalpha(c) ==
    \/ c \in 65..90
    \/ c \in 97..122
    \/ c \in ({2432} \cup (2437..2444) \cup {2447, 2448} \cup (2451..2472)
              \cup (2474..2480) \cup {2482} \cup (2486..2489) \cup {2493, 2510}
              \cup {2524, 2525} \cup (2527..2529) \cup {2544, 2545, 2556})

RECURSIVE lstrip(_)
lstrip(s) == IF s # <<>> /\ isspace(Head(s)) THEN lstrip(Tail(s)) ELSE s

RECURSIVE rstrip(_)
rstrip(s) ==
    IF s # <<>> /\ isspace(s[Len(s)]) THEN rstrip(SubSeq(s, 1, Len(s) - 1)) ELSE s

strip(s) == rstrip(lstrip(s))

\* str.replace("\n", " ")
replace_nl(s) == [i \in 1..Len(s) |-> IF s[i] = 10 THEN 32 ELSE s[i]]

startswith(s, p) == Len(s) >= Len(p) /\ SubSeq(s, 1, Len(p)) = p

\* sub in s
contains(sub, s) ==
    \E i \in 1..(Len(s) - Len(sub) + 1) : SubSeq(s, i, i + Len(sub) - 1) = sub

\* str.lower (ASCII letters; Bengali has no case)
lower(s) == [i \in 1..Len(s) |-> IF s[i] \in 65..90 THEN s[i] + 32 ELSE s[i]]

\* str(n) for a natural number n
RECURSIVE str_int(_)
str_int(n) == IF n < 10 THEN <<48 + n>> ELSE str_int(n \div 10) \o <<48 + (n % 10)>>

\* ------------------------------------------------- Script Range Oracle
_BN_START == 2432         \* 0x0980
_BN_END == 2559           \* 0x09FF
_VOWEL_SIGN_LO == 2494    \* 0x09BE
_VOWEL_SIGN_HI == 2508    \* 0x09CC
_KHANDA_TA == 2510        \* U+09CE

\* mutant: every character must be Bengali
_has_bengali_all(text) ==
    text # <<>> /\ \A i \in 1..Len(text) : _BN_START <= text[i] /\ text[i] <= _BN_END

_has_bengali(text) ==
    \E i \in 1..Len(text) : _BN_START <= text[i] /\ text[i] <= _BN_END

\* mutant: any Bengali character counts as a vowel sign
_has_vowel_sign_any(text) ==
    \E i \in 1..Len(text) : _BN_START <= text[i] /\ text[i] <= _BN_END

_has_vowel_sign(text) ==
    \E i \in 1..Len(text) : _VOWEL_SIGN_LO <= text[i] /\ text[i] <= _VOWEL_SIGN_HI

\* mutant: a Bengali character anywhere after the khanda-ta counts
_has_invalid_khanda_ta_anywhere(text) ==
    \E i \in 1..Len(text) :
        /\ text[i] = _KHANDA_TA
        /\ \E j \in (i + 1)..Len(text) : _BN_START <= text[j] /\ text[j] <= _BN_END

_has_invalid_khanda_ta(text) ==
    \E i \in 1..Len(text) :
        /\ text[i] = _KHANDA_TA
        /\ i + 1 <= Len(text)
        /\ _BN_START <= text[i + 1] /\ text[i + 1] <= _BN_END

\* ------------------------------------------ Conversion Validity Gate
\* utils.convert_bijoy_value; conv is the converter (text -> outcome)
\* mutant: a converter error leaves the gate
convert_bijoy_value_propagates(v, conv) ==
    IF v.kind # "str" THEN v
    ELSE LET text == strip(v.v) IN
         IF text = <<>> THEN v
         ELSE IF _has_bengali(text) THEN v
         ELSE IF ~ \E i \in 1..Len(text) : isalpha(text[i]) THEN v
         ELSE LET converted == conv[text] IN
              IF ~ converted.ok THEN PyRaise
              ELSE IF /\ _has_vowel_sign(converted.text)
                      /\ ~ _has_invalid_khanda_ta(converted.text)
                   THEN PyStr(converted.text)
                   ELSE v

convert_bijoy_value(v, conv) ==
    IF v.kind # "str" THEN v
    ELSE LET text == strip(v.v) IN
         IF text = <<>> THEN v
         ELSE IF _has_bengali(text) THEN v
         ELSE IF ~ \E i \in 1..Len(text) : isalpha(text[i]) THEN v
         ELSE LET converted == conv[text] IN
              IF ~ converted.ok THEN v
              ELSE IF /\ _has_vowel_sign(converted.text)
                      /\ ~ _has_invalid_khanda_ta(converted.text)
                   THEN PyStr(converted.text)
                   ELSE v

Unnamed == <<85, 110, 110, 97, 109, 101, 100, 58>>     \* "Unnamed:"

\* mutant: an accepted conversion is returned as the converter gave it
_convert_col_name_uncleaned(raw, conv) ==
    IF startswith(raw, Unnamed) THEN raw
    ELSE LET clean == strip(replace_nl(raw)) IN
         IF _has_bengali(clean) THEN clean
         ELSE IF ~ \E i \in 1..Len(clean) : isalpha(clean[i]) THEN clean
         ELSE LET converted == conv[clean] IN
              IF ~ converted.ok THEN clean
              ELSE IF /\ _has_vowel_sign(converted.text)
                      /\ ~ _has_invalid_khanda_ta(converted.text)
                   THEN converted.text
                   ELSE clean

\* utils._convert_col_name; raw is a str, the result is a str
_convert_col_name(raw, conv) ==
    IF startswith(raw, Unnamed) THEN raw
    ELSE LET clean == strip(replace_nl(raw)) IN
         IF _has_bengali(clean) THEN clean
         ELSE IF ~ \E i \in 1..Len(clean) : isalpha(clean[i]) THEN clean
         ELSE LET converted == conv[clean] IN
              IF ~ converted.ok THEN clean
              ELSE IF /\ _has_vowel_sign(converted.text)
                      /\ ~ _has_invalid_khanda_ta(converted.text)
                   THEN strip(replace_nl(converted.text))
                   ELSE clean

\* main.convert_bijoy_in_value
convert_bijoy_in_value(v, conv) ==
    IF v.kind # "str" THEN v
    ELSE IF strip(v.v) = <<>> THEN v
    ELSE IF _has_bengali(v.v) THEN v
    ELSE LET converted == conv[v.v] IN
         IF ~ converted.ok THEN v
         ELSE IF /\ _has_vowel_sign(converted.text)
                 /\ ~ _has_invalid_khanda_ta(converted.text)
              THEN PyStr(converted.text)
              ELSE v

\* ----------------------------------------------- gate specification
\* Input characters: 'a', '1', ' ', '\n', KA (letter), AA (vowel sign)
InChars == {97, 49, 32, 10, 2453, 2494}
\* Converter output characters: KA, AA, KHANDA TA, ' ', '\n'
OutChars == {2453, 2494, 2510, 32, 10}

GateInputs == {PyStr(s) : s \in Strings(InChars, MaxLen)} \cup {PyNum(42)}
\* the dependent vowel signs the comment above _VOWEL_SIGN_RANGE lists:
\* AA, I, II, U, UU, R, RR, L, LL, O, AU
VowelSignsListed == {2494, 2495, 2496, 2497, 2498, 2499, 2500, 2530, 2531, 2507, 2508}
\* the converter fails, or returns a text over OutChars, or KA with one of
\* the listed vowel signs
Outcomes ==
    {ConvFail} \cup {ConvOk(s) : s \in Strings(OutChars, MaxOutLen)}
               \cup {ConvOk(<<2453, sign>>) : sign \in VowelSignsListed}

\* the texts a gate may hand to the converter for value v
GateTexts(v) == {v.v, strip(v.v), strip(replace_nl(v.v))}

NoUc == [t \in {} |-> ConvFail]
NoResult == [gate |-> "none", ret |-> PyNone]
NoPrev == [cols |-> <<>>, cells |-> <<>>]
NoDetected == [done |-> FALSE, id_idx |-> 0, name_idx |-> 0, name_found |-> 0]
NoDf == [cols |-> <<>>, rows |-> <<>>]
NoEmployees == [done |-> FALSE, list |-> <<>>]
NoIds == [given |-> FALSE, ids |-> <<>>]
NoSession == [excel_path |-> 0, original_filename |-> <<>>]
NoFile == [present |-> FALSE, name |-> <<>>]
NoRequest == [method |-> "GET", file |-> NoFile, preset |-> <<>>]
NoResponse == [view |-> "none", request |-> NoRequest, status |-> 0, to |-> "",
               error |-> "", loaded |-> FALSE]
NoSurfaces == [kind |-> "none", cell |-> PyNone, col |-> PyNone, index |-> PyNone]
NoExport == [kind |-> "none", employee_ids |-> NoIds, selected_columns |-> <<>>,
             raised |-> FALSE, rows |-> <<>>, cols |-> <<>>, docs |-> <<>>,
             is_zip |-> FALSE]

InitGate ==
    /\ entry = "gate"
    /\ value \in GateInputs
    /\ uc = NoUc
    /\ result = NoResult
    /\ rawCols = <<>> /\ rawCells = <<>> /\ unicode_cols = <<>> /\ cells = <<>>
    /\ prev = NoPrev /\ passes = 0 /\ load_error = FALSE
    /\ columns = <<>> /\ detected = NoDetected
    /\ frame = NoDf /\ employees = NoEmployees /\ export = NoExport
    /\ surfaces = NoSurfaces
    /\ session = NoSession /\ disk = {} /\ uploads = 0 /\ requests = 0
    /\ response = NoResponse

\* one call of utils.convert_bijoy_value(value)
CellGate ==
    /\ entry = "gate" /\ result.gate = "none"
    /\ \E out \in Outcomes :
         /\ uc' = [t \in GateTexts(value) |-> out]
         /\ result' = [gate |-> "cell", ret |-> convert_bijoy_value(value, uc')]
    /\ UNCHANGED <<entry, value, loadVars, resolveVars, recordVars, surfaceVars, sessionVars>>

\* one call of utils._convert_col_name(str(col))
ColGate ==
    /\ entry = "gate" /\ result.gate = "none"
    /\ value.kind = "str"
    /\ \E out \in Outcomes :
         /\ uc' = [t \in GateTexts(value) |-> out]
         /\ result' = [gate |-> "col", ret |-> PyStr(_convert_col_name(value.v, uc'))]
    /\ UNCHANGED <<entry, value, loadVars, resolveVars, recordVars, surfaceVars, sessionVars>>

\* one call of main.convert_bijoy_in_value(value)
MainGate ==
    /\ entry = "gate" /\ result.gate = "none"
    /\ \E out \in Outcomes :
         /\ uc' = [t \in GateTexts(value) |-> out]
         /\ result' = [gate |-> "main", ret |-> convert_bijoy_in_value(value, uc')]
    /\ UNCHANGED <<entry, value, loadVars, resolveVars, recordVars, surfaceVars, sessionVars>>

NextGate == CellGate \/ ColGate \/ MainGate

SpecGate == InitGate /\ [][NextGate]_vars

\* --------------------------------------- Cell/Header Conversion Pipeline
PyNaN == [kind |-> "nan", v |-> <<>>]
PyDate(d, m, y) == [kind |-> "date", v |-> <<d, m, y>>]

\* zero-padded decimal of n in w digits (strftime's %d, %m, %Y)
RECURSIVE zfill(_, _)
zfill(n, w) == IF w = 0 THEN <<>> ELSE zfill(n \div 10, w - 1) \o <<48 + (n % 10)>>

\* Series.dt.strftime("%d/%m/%Y")
strftime_dmy(d) == zfill(d.v[1], 2) \o <<47>> \o zfill(d.v[2], 2) \o <<47>> \o zfill(d.v[3], 4)

\* mutant: the collision count is used before it is incremented
RECURSIVE dedup_names_from_zero(_, _, _)
dedup_names_from_zero(names, i, seen) ==
    IF i > Len(names) THEN <<>>
    ELSE LET name == names[i] IN
         IF name \in DOMAIN seen
         THEN LET n == seen[name] IN
              <<name \o <<95>> \o str_int(n)>>
                  \o dedup_names_from_zero(names, i + 1, [seen EXCEPT ![name] = n + 1])
         ELSE <<name>> \o dedup_names_from_zero(names, i + 1, seen @@ (name :> 0))

\* the column-name loop: names[i] is _convert_col_name(str(col)) of column i,
\* seen is the dict of names emitted so far with their collision counts
RECURSIVE dedup_names(_, _, _)
dedup_names(names, i, seen) ==
    IF i > Len(names) THEN <<>>
    ELSE LET name == names[i] IN
         IF name \in DOMAIN seen
         THEN LET n == seen[name] + 1 IN
              <<name \o <<95>> \o str_int(n)>>
                  \o dedup_names(names, i + 1, [seen EXCEPT ![name] = n])
         ELSE <<name>> \o dedup_names(names, i + 1, seen @@ (name :> 0))

\* name = _convert_col_name(str(col)) for every column
convert_cols(cols, conv) == [i \in 1..Len(cols) |-> _convert_col_name(cols[i], conv)]

\* df.map(lambda v: convert_bijoy_value(v) if isinstance(v, str) else v),
\* then datetime columns -> "%d/%m/%Y" strings, then NaN -> ""
process_cell(v, conv) ==
    LET c == IF v.kind = "str" THEN convert_bijoy_value(v, conv) ELSE v IN
    IF c.kind = "date" THEN PyStr(strftime_dmy(c))
    ELSE IF c.kind = "nan" THEN PyStr(<<>>)
    ELSE c

\* utils.load_and_process_excel on the frame df = [cols, cells] read from the
\* sheet; cells is one row of the frame (df.map works cell by cell)
load_and_process_excel(df, conv) ==
    LET newcells == [i \in 1..Len(df.cells) |-> process_cell(df.cells[i], conv)] IN
    [cols |-> dedup_names(convert_cols(df.cols, conv), 1, <<>>),
     cells |-> newcells,
     raised |-> \E i \in 1..Len(newcells) : newcells[i].kind = "raise"]

\* ------------------------------------------------- load specification
S_Name == <<78, 97, 109, 101>>                         \* "Name"
S_Name_nl == <<78, 97, 109, 101, 10>>                  \* "Name\n"
S_sp_Name == <<32, 78, 97, 109, 101>>                  \* " Name"
S_Name_1 == <<78, 97, 109, 101, 95, 49>>               \* "Name_1"
S_Unnamed0 == <<85, 110, 110, 97, 109, 101, 100, 58, 32, 48>>   \* "Unnamed: 0"
S_ab == <<32, 97, 98, 32>>                             \* " ab "
S_kaa == <<2453, 2494>>                                \* KA + AA: valid Bangla
S_ka == <<2453>>                                       \* KA alone: no vowel sign

HeaderPool == {S_Name, S_Name_nl, S_sp_Name, S_Name_1, S_Unnamed0}
CellPool == {PyStr(S_ab), PyNaN, PyDate(1, 2, 2020)}
LoadOutcomes == {ConvFail, ConvOk(S_kaa), ConvOk(S_ka)}

\* pd.read_excel hands out pairwise different column labels
Distinct(s) == \A i, j \in 1..Len(s) : i # j => s[i] # s[j]
HeaderLists == {s \in UNION {[1..k -> HeaderPool] : k \in 0..MaxCols} : Distinct(s)}

\* the texts the pipeline hands to the converter for the frame df
asks_converter(text) ==
    /\ ~ _has_bengali(text)
    /\ \E i \in 1..Len(text) : isalpha(text[i])
LoadTexts(df) ==
    {t \in {strip(replace_nl(df.cols[i])) : i \in {j \in 1..Len(df.cols) :
                                              ~ startswith(df.cols[j], Unnamed)}}
           \cup {strip(df.cells[i].v) : i \in {j \in 1..Len(df.cells) :
                                              df.cells[j].kind = "str"}} :
        asks_converter(t)}

InitLoad ==
    /\ entry = "load"
    /\ rawCols \in HeaderLists
    /\ rawCells \in [1..Len(rawCols) -> CellPool]
    /\ unicode_cols = <<>> /\ cells = <<>>
    /\ prev = NoPrev /\ passes = 0 /\ load_error = FALSE
    /\ uc = NoUc
    /\ value = PyNone /\ result = NoResult
    /\ columns = <<>> /\ detected = NoDetected
    /\ frame = NoDf /\ employees = NoEmployees /\ export = NoExport
    /\ surfaces = NoSurfaces
    /\ session = NoSession /\ disk = {} /\ uploads = 0 /\ requests = 0
    /\ response = NoResponse

\* load_and_process_excel(file_path): the sheet is read and processed
Load ==
    /\ entry = "load" /\ passes = 0
    /\ \E df \in {[cols |-> rawCols, cells |-> rawCells]} :
       \E f \in [LoadTexts(df) \ DOMAIN uc -> LoadOutcomes] :
       \E conv \in {uc @@ f} :
       \E out \in {load_and_process_excel(df, conv)} :
          /\ uc' = conv
          /\ unicode_cols' = out.cols
          /\ cells' = out.cells
          /\ load_error' = out.raised
          /\ prev' = df
          /\ passes' = 1
    /\ UNCHANGED <<entry, value, result, rawCols, rawCells, resolveVars, recordVars,
                   surfaceVars, sessionVars>>

\* the processed frame goes through the pipeline once more
Reprocess ==
    /\ entry = "load" /\ passes = 1 /\ ~ load_error
    /\ \E df \in {[cols |-> unicode_cols, cells |-> cells]} :
       \E f \in [LoadTexts(df) \ DOMAIN uc -> LoadOutcomes] :
       \E conv \in {uc @@ f} :
       \E out \in {load_and_process_excel(df, conv)} :
          /\ uc' = conv
          /\ unicode_cols' = out.cols
          /\ cells' = out.cells
          /\ load_error' = out.raised
          /\ prev' = df
          /\ passes' = 2
    /\ UNCHANGED <<entry, value, result, rawCols, rawCells, resolveVars, recordVars,
                   surfaceVars, sessionVars>>

NextLoad == Load \/ Reprocess
SpecLoad == InitLoad /\ [][NextLoad]_vars

\* ------------------------------------------------ Column Role Resolver
_FALLBACK_ID_IDX == 3
_FALLBACK_NAME_IDX == 5

S_id == <<105, 100>>                                   \* "id"
S_name == <<110, 97, 109, 101>>                        \* "name"
S_name_bn == <<110, 97, 109, 101, 95, 98, 110>>        \* "name_bn"
S_nam == <<2472, 2494, 2478>>                          \* "নাম"
S_personnel_bn == <<2474, 2494, 2480, 2509, 2488, 2507, 2472, 2503, 2482>>  \* "পার্সোনেল"
S_personnel == <<112, 101, 114, 115, 111, 110, 110, 101, 108>>             \* "personnel"
S_emp_id == <<101, 109, 112, 95, 105, 100>>            \* "emp_id"
S_employee_id == <<101, 109, 112, 108, 111, 121, 101, 101, 95, 105, 100>>  \* "employee_id"

_ID_KEYWORDS == <<S_personnel_bn, S_personnel, S_emp_id, S_employee_id>>
_ID_EXACT == <<S_id>>
_NAME_KEYWORDS == <<S_nam, S_name>>
_NAME_EXACT == <<S_nam, S_name_bn, S_name>>

Min(a, b) == IF a <= b THEN a ELSE b

\* list.index(x), 0-based, for x in list
index(list, x) ==
    (CHOOSE i \in 1..Len(list) : list[i] = x /\ \A j \in 1..(i - 1) : list[j] # x) - 1

\* mutant: the leftmost header that equals any of the exact names
exact_match_leftmost(exacts, k, lowered) ==
    LET hits == {i \in 1..Len(lowered) :
                    \E e \in k..Len(exacts) : lowered[i] = exacts[e]} IN
    IF hits = {} THEN <<>>
    ELSE <<(CHOOSE i \in hits : \A j \in hits : i <= j) - 1>>

\* for exact in exacts: if exact in lower: idx = lower.index(exact); break
\* the result is <<idx>>, or <<>> for None
RECURSIVE exact_match(_, _, _)
exact_match(exacts, k, lowered) ==
    IF k > Len(exacts) THEN <<>>
    ELSE IF \E i \in 1..Len(lowered) : lowered[i] = exacts[k]
         THEN <<index(lowered, exacts[k])>>
         ELSE exact_match(exacts, k + 1, lowered)

\* for i, c in enumerate(lower): if any(kw in c for kw in kws): idx = i; break
keyword_match(kws, lowered) ==
    LET hits == {i \in 1..Len(lowered) :
                    \E k \in 1..Len(kws) : contains(kws[k], lowered[i])} IN
    IF hits = {} THEN <<>>
    ELSE <<(CHOOSE i \in hits : \A j \in hits : i <= j) - 1>>

\* mutant: the positional fallback is not clamped to the column count
resolve_role_unclamped(exacts, kws, fallback, lowered) ==
    LET e == exact_match(exacts, 1, lowered) IN
    IF e # <<>> THEN e[1]
    ELSE LET s == keyword_match(kws, lowered) IN
         IF s # <<>> THEN s[1]
         ELSE fallback

\* mutant: the keyword search runs before the exact match
resolve_role_keyword_first(exacts, kws, fallback, lowered) ==
    LET s == keyword_match(kws, lowered) IN
    IF s # <<>> THEN s[1]
    ELSE LET e == exact_match(exacts, 1, lowered) IN
         IF e # <<>> THEN e[1]
         ELSE Min(fallback, Len(lowered) - 1)

\* the three-tier search the function runs once for the id column and once
\* for the name column: exact match, substring match, positional fallback
resolve_role(exacts, kws, fallback, lowered) ==
    LET e == exact_match(exacts, 1, lowered) IN
    IF e # <<>> THEN e[1]
    ELSE LET s == keyword_match(kws, lowered) IN
         IF s # <<>> THEN s[1]
         ELSE Min(fallback, Len(lowered) - 1)

\* utils._detect_id_name_cols; indices are 0-based as in the source;
\* name_found is name_idx as it stands before the last if statement
_detect_id_name_cols(cols) ==
    LET lowered == [i \in 1..Len(cols) |-> strip(lower(cols[i]))]
        id_idx == resolve_role(_ID_EXACT, _ID_KEYWORDS, _FALLBACK_ID_IDX, lowered)
        name_idx == resolve_role(_NAME_EXACT, _NAME_KEYWORDS, _FALLBACK_NAME_IDX, lowered)
    IN  [id_idx |-> id_idx,
         name_found |-> name_idx,
         name_idx |-> IF name_idx = id_idx
                      THEN (IF id_idx + 1 < Len(cols) THEN id_idx + 1 ELSE id_idx)
                      ELSE name_idx]

\* --------------------------------------------- resolver specification
S_ID_sp == <<73, 68, 32>>                              \* "ID "
S_x == <<120>>                                         \* "x"

ResolvePool == {S_id, S_ID_sp, S_emp_id, S_Name, S_nam, S_Unnamed0, S_x}

InitResolve ==
    /\ entry = "resolve"
    /\ columns \in UNION {[1..k -> ResolvePool] : k \in 0..MaxHeaders}
    /\ detected = NoDetected
    /\ value = PyNone /\ uc = NoUc /\ result = NoResult
    /\ rawCols = <<>> /\ rawCells = <<>> /\ unicode_cols = <<>> /\ cells = <<>>
    /\ prev = NoPrev /\ passes = 0 /\ load_error = FALSE
    /\ frame = NoDf /\ employees = NoEmployees /\ export = NoExport
    /\ surfaces = NoSurfaces
    /\ session = NoSession /\ disk = {} /\ uploads = 0 /\ requests = 0
    /\ response = NoResponse

\* _detect_id_name_cols(columns) for a header list with at least one column
\* (get_employee_list returns before the call when there are no columns)
Detect ==
    /\ entry = "resolve" /\ ~ detected.done
    /\ columns # <<>>
    /\ LET r == _detect_id_name_cols(columns) IN
       detected' = [done |-> TRUE, id_idx |-> r.id_idx, name_idx |-> r.name_idx,
                    name_found |-> r.name_found]
    /\ UNCHANGED <<entry, gateVars, loadVars, columns, recordVars, surfaceVars, sessionVars>>

NextResolve == Detect
SpecResolve == InitResolve /\ [][NextResolve]_vars

\* ------------------------------------------ Record Extraction & Filtering
\* str(v) of a cell value
py_str(v) == IF v.kind = "num" THEN str_int(v.v[1]) ELSE v.v

\* value of a decimal digit as int() reads it (ASCII and Bengali digits), else -1
digit_val(c) ==
    IF c \in 48..57 THEN c - 48
    ELSE IF c \in 2534..2543 THEN c - 2534
    ELSE -1

RECURSIVE digits_value(_, _)
digits_value(s, acc) ==
    IF s = <<>> THEN acc
    ELSE IF Head(s) = 95 THEN digits_value(Tail(s), acc)
    ELSE digits_value(Tail(s), 10 * acc + digit_val(Head(s)))

\* int(s): <<n>>, or <<>> when int raises ValueError.  An optional sign, then
\* digits, single underscores allowed between digits; blanks around are ignored
py_int(s) ==
    LET t == strip(s)
        signed == t # <<>> /\ Head(t) \in {43, 45}
        body == IF signed THEN Tail(t) ELSE t
        ok == /\ body # <<>>
              /\ digit_val(body[1]) >= 0 /\ digit_val(body[Len(body)]) >= 0
              /\ \A i \in 1..Len(body) : body[i] = 95 \/ digit_val(body[i]) >= 0
              /\ \A i \in 1..(Len(body) - 1) : ~ (body[i] = 95 /\ body[i + 1] = 95)
    IN  IF ~ ok THEN <<>>
        ELSE IF signed /\ Head(t) = 45 THEN <<0 - digits_value(body, 0)>>
        ELSE <<digits_value(body, 0)>>

\* list[i] with Python's indexing: -len <= i < len, else IndexError
py_index_ok(list, i) == 0 - Len(list) <= i /\ i < Len(list)
py_getitem(list, i) == IF i >= 0 THEN list[i + 1] ELSE list[Len(list) + i + 1]

S_nan == <<110, 97, 110>>                               \* "nan"
S_NaN == <<78, 97, 78>>                                 \* "NaN"

\* mutant: one value in 1..60 is enough to skip the row
is_header_row_either(emp_id, name) ==
    LET id_int == py_int(emp_id)
        name_int == py_int(name)
    IN  \/ id_int # <<>> /\ 0 < id_int[1] /\ id_int[1] <= 60
        \/ name_int # <<>> /\ 0 < name_int[1] /\ name_int[1] <= 60

\* the try block of get_employee_list: both values are integers in 1..60
is_header_row(emp_id, name) ==
    LET id_int == py_int(emp_id) IN
    IF id_int = <<>> THEN FALSE
    ELSE LET name_int == py_int(name) IN
         IF name_int = <<>> THEN FALSE
         ELSE /\ 0 < id_int[1] /\ id_int[1] <= 60
              /\ 0 < name_int[1] /\ name_int[1] <= 60

\* mutant: the name is not replaced by the identifier when it is empty
row_record_no_fallback(row, id_idx, name_idx) ==
    LET emp_id == strip(py_str(row[id_idx + 1]))
        name == strip(py_str(row[name_idx + 1]))
    IN  IF emp_id = <<>> \/ emp_id \in {<<>>, S_nan} THEN <<>>
        ELSE IF is_header_row(emp_id, name) THEN <<>>
        ELSE <<[id |-> emp_id, name |-> name]>>

\* one turn of the loop over df.iterrows(): <<record>> or <<>> (continue)
row_record(row, id_idx, name_idx) ==
    LET emp_id == strip(py_str(row[id_idx + 1]))
        name == strip(py_str(row[name_idx + 1]))
    IN  IF emp_id = <<>> \/ emp_id \in {<<>>, S_nan} THEN <<>>
        ELSE IF is_header_row(emp_id, name) THEN <<>>
        ELSE <<[id |-> emp_id, name |-> IF name # <<>> THEN name ELSE emp_id]>>

\* mutant: a row whose identifier an earlier record carries adds no record
RECURSIVE rows_records_unique(_, _, _, _)
rows_records_unique(rows, i, id_idx, name_idx) ==
    IF i > Len(rows) THEN <<>>
    ELSE LET rec == row_record(rows[i], id_idx, name_idx)
             seen == \E j \in 1..(i - 1) :
                        row_record(rows[j], id_idx, name_idx) # <<>>
                        /\ row_record(rows[j], id_idx, name_idx)[1].id = rec[1].id
         IN  (IF rec # <<>> /\ ~ seen THEN rec ELSE <<>>)
                 \o rows_records_unique(rows, i + 1, id_idx, name_idx)

RECURSIVE rows_records(_, _, _, _)
rows_records(rows, i, id_idx, name_idx) ==
    IF i > Len(rows) THEN <<>>
    ELSE row_record(rows[i], id_idx, name_idx)
             \o rows_records(rows, i + 1, id_idx, name_idx)

\* utils.get_employee_list; the column labels of df are pairwise different,
\* so row[label] is the cell at the label's position
get_employee_list(df) ==
    IF df.cols = <<>> THEN <<>>
    ELSE LET r == _detect_id_name_cols(df.cols) IN
         rows_records(df.rows, 1, r.id_idx, r.name_idx)

\* mutant: the requested identifiers are compared as they were sent
RECURSIVE filter_rows_untrimmed(_, _, _, _)
filter_rows_untrimmed(rows, i, id_idx, employee_ids) ==
    IF i > Len(rows) THEN <<>>
    ELSE (IF \/ ~ (employee_ids.given /\ employee_ids.ids # <<>>)
             \/ \E k \in 1..Len(employee_ids.ids) :
                   py_str(py_getitem(rows[i], id_idx)) = employee_ids.ids[k]
          THEN <<i>> ELSE <<>>)
         \o filter_rows_untrimmed(rows, i + 1, id_idx, employee_ids)

\* the positions of the rows an export keeps, in row order:
\* df[df[id_col].astype(str).isin([str(e).strip() for e in employee_ids])]
\* when employee_ids is given and not empty, else every row
RECURSIVE filter_rows(_, _, _, _)
filter_rows(rows, i, id_idx, employee_ids) ==
    IF i > Len(rows) THEN <<>>
    ELSE (IF \/ ~ (employee_ids.given /\ employee_ids.ids # <<>>)
             \/ \E k \in 1..Len(employee_ids.ids) :
                   py_str(py_getitem(rows[i], id_idx)) = strip(employee_ids.ids[k])
          THEN <<i>> ELSE <<>>)
         \o filter_rows(rows, i + 1, id_idx, employee_ids)

\* valid_cols: the selected columns df has, or all its columns
valid_cols_of(cols, selected_columns) ==
    LET valid == SelectSeq(selected_columns,
                           LAMBDA c : \E i \in 1..Len(cols) : cols[i] = c) IN
    IF valid = <<>> THEN cols ELSE valid

ExportRaised(kind, employee_ids, selected_columns) ==
    [kind |-> kind, employee_ids |-> employee_ids,
     selected_columns |-> selected_columns, raised |-> TRUE,
     rows |-> <<>>, cols |-> <<>>, docs |-> <<>>, is_zip |-> FALSE]

\* utils.generate_export_excel up to the frame that is written (rows, columns)
generate_export_excel(df, selected_columns, employee_ids) ==
    LET r == _detect_id_name_cols(df.cols) IN
    IF ~ py_index_ok(df.cols, r.id_idx)
    THEN ExportRaised("excel", employee_ids, selected_columns)
    ELSE [kind |-> "excel", employee_ids |-> employee_ids,
          selected_columns |-> selected_columns, raised |-> FALSE,
          rows |-> filter_rows(df.rows, 1, r.id_idx, employee_ids),
          cols |-> valid_cols_of(df.cols, selected_columns),
          docs |-> <<>>, is_zip |-> FALSE]

\* the (emp_id, emp_name) of the document made for one exported row
doc_of(row, id_idx, name_idx) ==
    LET emp_id == strip(py_str(py_getitem(row, id_idx)))
        emp_name == strip(py_str(py_getitem(row, name_idx)))
    IN  [emp_id |-> emp_id,
         emp_name |-> IF emp_name \in {S_nan, S_NaN, <<>>} THEN emp_id ELSE emp_name]

\* utils.generate_export_docx_zip up to the list of documents (one per row)
generate_export_docx_zip(df, selected_columns, employee_ids) ==
    LET r == _detect_id_name_cols(df.cols) IN
    IF ~ py_index_ok(df.cols, r.id_idx) \/ ~ py_index_ok(df.cols, r.name_idx)
    THEN ExportRaised("docx", employee_ids, selected_columns)
    ELSE LET kept == filter_rows(df.rows, 1, r.id_idx, employee_ids) IN
         [kind |-> "docx", employee_ids |-> employee_ids,
          selected_columns |-> selected_columns, raised |-> FALSE,
          rows |-> kept,
          cols |-> valid_cols_of(df.cols, selected_columns),
          docs |-> [k \in 1..Len(kept) |->
                       doc_of(df.rows[kept[k]], r.id_idx, r.name_idx)],
          is_zip |-> Len(kept) > 1]

\* ----------------------------------------------- records specification
S_5 == <<53>>                                           \* "5"
S_sp5 == <<32, 53>>                                     \* " 5"
S_60 == <<54, 48>>                                      \* "60"
S_61 == <<54, 49>>                                      \* "61"
S_0 == <<48>>                                           \* "0"
S_m1 == <<45, 49>>                                      \* "-1"
S_bn5 == <<2539>>                                       \* Bengali digit five
S_abc == <<97, 98>>                                     \* "ab"
S_5p5 == <<53, 46, 53>>                                 \* "5.5"
S_zz == <<122, 122>>                                    \* "zz"

RecordHeaderLists == {<<>>, <<S_x>>, <<S_Name, S_id>>}
SmallCells == {PyStr(<<>>), PyStr(S_sp5), PyStr(S_5), PyStr(S_abc)}
BigCells == SmallCells \cup {PyStr(S_nan), PyStr(S_60), PyStr(S_61), PyStr(S_0),
                             PyStr(S_m1), PyStr(S_bn5), PyStr(S_5p5), PyNum(7)}
RowsOver(cellset, n, k) == UNION {[1..m -> [1..n -> cellset]] : m \in 0..k}
\* a table without columns has no rows (an empty sheet)
RowsFor(cols) ==
    IF cols = <<>> THEN {<<>>}
    ELSE RowsOver(SmallCells, Len(cols), MaxRows) \cup RowsOver(BigCells, Len(cols), 1)

\* the selections a request can carry: none, an empty list, one identifier as
\* it is listed (trimmed) or as it stands in a cell, or two identifiers
IdChoices(df) ==
    {NoIds, [given |-> TRUE, ids |-> <<>>], [given |-> TRUE, ids |-> <<S_sp5, S_abc>>]}
    \cup {[given |-> TRUE, ids |-> <<strip(py_str(df.rows[i][j]))>>] :
             i \in 1..Len(df.rows), j \in 1..Len(df.cols)}
SelectedChoices == {<<>>, <<S_id, S_zz>>}

InitRecords ==
    /\ entry = "records"
    /\ \E c \in RecordHeaderLists : \E r \in RowsFor(c) : frame = [cols |-> c, rows |-> r]
    /\ employees = NoEmployees /\ export = NoExport
    /\ value = PyNone /\ uc = NoUc /\ result = NoResult
    /\ rawCols = <<>> /\ rawCells = <<>> /\ unicode_cols = <<>> /\ cells = <<>>
    /\ prev = NoPrev /\ passes = 0 /\ load_error = FALSE
    /\ columns = <<>> /\ detected = NoDetected
    /\ surfaces = NoSurfaces
    /\ session = NoSession /\ disk = {} /\ uploads = 0 /\ requests = 0
    /\ response = NoResponse

\* employees = get_employee_list(df)
GetEmployeeList ==
    /\ entry = "records" /\ ~ employees.done
    /\ employees' = [done |-> TRUE, list |-> get_employee_list(frame)]
    /\ UNCHANGED <<entry, gateVars, loadVars, resolveVars, frame, export, surfaceVars,
                   sessionVars>>

\* generate_export_excel(df, selected_columns, employee_ids, report_title)
ExportExcel ==
    /\ entry = "records" /\ export.kind = "none"
    /\ \E ids \in IdChoices(frame) : \E sel \in SelectedChoices :
          export' = generate_export_excel(frame, sel, ids)
    /\ UNCHANGED <<entry, gateVars, loadVars, resolveVars, frame, employees, surfaceVars,
                   sessionVars>>

\* generate_export_docx_zip(df, selected_columns, employee_ids, report_title)
ExportDocxZip ==
    /\ entry = "records" /\ export.kind = "none"
    /\ \E ids \in IdChoices(frame) : \E sel \in SelectedChoices :
          export' = generate_export_docx_zip(frame, sel, ids)
    /\ UNCHANGED <<entry, gateVars, loadVars, resolveVars, frame, employees, surfaceVars,
                   sessionVars>>

NextRecords == GetEmployeeList \/ ExportExcel \/ ExportDocxZip
SpecRecords == InitRecords /\ [][NextRecords]_vars

\* --------------------------------------------- surfaces specification
\* One text met as a cell, as a header and as a row-index label.  The
\* converter may answer differently for the different texts it is handed.
S_sp_kaa_nl == <<32, 2453, 2494, 10>>                   \* " কা\n"
SurfaceInputs == {v \in GateInputs : v.kind = "str"} \cup {PyStr(S_Unnamed0)}
SurfaceOutcomes == {ConvFail, ConvOk(S_kaa), ConvOk(S_ka), ConvOk(S_sp_kaa_nl)}

InitSurface ==
    /\ entry = "surface"
    /\ value \in SurfaceInputs
    /\ uc = NoUc /\ result = NoResult /\ surfaces = NoSurfaces
    /\ session = NoSession /\ disk = {} /\ uploads = 0 /\ requests = 0
    /\ response = NoResponse
    /\ rawCols = <<>> /\ rawCells = <<>> /\ unicode_cols = <<>> /\ cells = <<>>
    /\ prev = NoPrev /\ passes = 0 /\ load_error = FALSE
    /\ columns = <<>> /\ detected = NoDetected
    /\ frame = NoDf /\ employees = NoEmployees /\ export = NoExport

\* utils.load_and_process_excel on a sheet where value is a header and a cell:
\* headers through _convert_col_name, cells through convert_bijoy_value, the
\* index is not touched
PipelineSurfaces ==
    /\ entry = "surface" /\ surfaces.kind = "none"
    /\ \E conv \in [GateTexts(value) -> SurfaceOutcomes] :
         /\ uc' = conv
         /\ surfaces' = [kind |-> "utils",
                         cell |-> convert_bijoy_value(value, conv),
                         col |-> PyStr(_convert_col_name(value.v, conv)),
                         index |-> value]
    /\ UNCHANGED <<entry, value, result, loadVars, resolveVars, recordVars, sessionVars>>

\* main._apply_to_df on a frame where value is a cell, a header and an index
\* label: all three through convert_bijoy_in_value
ApplyToDf ==
    /\ entry = "surface" /\ surfaces.kind = "none"
    /\ \E conv \in [GateTexts(value) -> SurfaceOutcomes] :
         /\ uc' = conv
         /\ surfaces' = [kind |-> "main",
                         cell |-> convert_bijoy_in_value(value, conv),
                         col |-> convert_bijoy_in_value(value, conv),
                         index |-> convert_bijoy_in_value(value, conv)]
    /\ UNCHANGED <<entry, value, result, loadVars, resolveVars, recordVars, sessionVars>>

NextSurface == PipelineSurfaces \/ ApplyToDf
SpecSurface == InitSurface /\ [][NextSurface]_vars

\* ------------------------------------------------ views (one session)
\* s.endswith(suffix)
endswith(s, suffix) ==
    Len(s) >= Len(suffix) /\ SubSeq(s, Len(s) - Len(suffix) + 1, Len(s)) = suffix

S_dot_xlsx == <<46, 120, 108, 115, 120>>                \* ".xlsx"
S_dot_xls == <<46, 120, 108, 115>>                      \* ".xls"

\* mutant: any file that was sent is taken
upload_accepted_any_name(uploaded_file) == uploaded_file.present

\* upload_view takes the else branch: a file was sent and its lower-cased
\* name ends with ".xlsx" or ".xls"
upload_accepted(uploaded_file) ==
    /\ uploaded_file.present
    /\ \/ endswith(lower(uploaded_file.name), S_dot_xlsx)
       \/ endswith(lower(uploaded_file.name), S_dot_xls)

\* not excel_path or not os.path.exists(excel_path)
no_file_in_session == session.excel_path = 0 \/ session.excel_path \notin disk

Answer(view, request, status, to, error, loaded) ==
    [view |-> view, request |-> request, status |-> status, to |-> to,
     error |-> error, loaded |-> loaded]

\* ------------------------------------------------- views specification
S_a_xlsx == <<97, 46, 120, 108, 115, 120>>              \* "a.xlsx"
S_A_XLS == <<65, 46, 88, 76, 83>>                       \* "A.XLS"
S_a_csv == <<97, 46, 99, 115, 118>>                     \* "a.csv"
S_xls == <<120, 108, 115>>                              \* "xls"
S_k == <<107>>                                          \* "k"
Methods == {"GET", "POST"}
FileNames == {S_a_xlsx, S_A_XLS, S_a_csv, S_xls}
UploadedFiles == {NoFile} \cup {[present |-> TRUE, name |-> n] : n \in FileNames}
PresetKeys == {<<>>, S_k}

InitViews ==
    /\ entry = "views"
    /\ session = NoSession /\ disk = {} /\ uploads = 0 /\ requests = 0
    /\ response = NoResponse
    /\ value = PyNone /\ uc = NoUc /\ result = NoResult
    /\ rawCols = <<>> /\ rawCells = <<>> /\ unicode_cols = <<>> /\ cells = <<>>
    /\ prev = NoPrev /\ passes = 0 /\ load_error = FALSE
    /\ columns = <<>> /\ detected = NoDetected
    /\ frame = NoDf /\ employees = NoEmployees /\ export = NoExport
    /\ surfaces = NoSurfaces

NotViews == <<entry, gateVars, loadVars, resolveVars, recordVars, surfaceVars>>

\* one request to upload_view; the file written is named by a fresh uuid,
\* here the number of the upload
UploadView ==
    /\ entry = "views" /\ requests < MaxRequests
    /\ requests' = requests + 1
    /\ \E m \in Methods : \E f \in UploadedFiles :
         LET request == [method |-> m, file |-> f, preset |-> <<>>] IN
         IF m = "POST" /\ upload_accepted(f)
         THEN /\ uploads' = uploads + 1
              /\ disk' = disk \cup {uploads + 1}
              /\ session' = [excel_path |-> uploads + 1, original_filename |-> f.name]
              /\ response' = Answer("upload", request, 302, "configure", "", FALSE)
         ELSE /\ response' = Answer("upload", request, 200, "",
                                    IF m # "POST" THEN ""
                                    ELSE IF ~ f.present THEN "no_file"
                                    ELSE "not_excel", FALSE)
              /\ UNCHANGED <<session, disk, uploads>>
    /\ UNCHANGED NotViews

\* one request to configure_view; load_and_process_excel returns or raises
ConfigureView ==
    /\ entry = "views" /\ requests < MaxRequests
    /\ requests' = requests + 1
    /\ \E m \in Methods : \E load_ok \in BOOLEAN :
         LET request == [method |-> m, file |-> NoFile, preset |-> <<>>] IN
         response' =
             IF no_file_in_session
             THEN Answer("configure", request, 302, "upload", "", FALSE)
             ELSE IF ~ load_ok
             THEN Answer("configure", request, 200, "", "load_failed", TRUE)
             ELSE Answer("configure", request, 200, "", "", TRUE)
    /\ UNCHANGED <<session, disk, uploads>>
    /\ UNCHANGED NotViews

\* one request to export_view (@require_POST); load_and_process_excel and
\* generate_export_excel each return or raise
ExportView ==
    /\ entry = "views" /\ requests < MaxRequests
    /\ requests' = requests + 1
    /\ \E m \in Methods : \E load_ok \in BOOLEAN : \E export_ok \in BOOLEAN :
         LET request == [method |-> m, file |-> NoFile, preset |-> <<>>] IN
         response' =
             IF m # "POST"
             THEN Answer("export", request, 405, "", "", FALSE)
             ELSE IF no_file_in_session
             THEN Answer("export", request, 302, "upload", "", FALSE)
             ELSE IF ~ load_ok
             THEN Answer("export", request, 302, "upload", "", TRUE)
             ELSE IF ~ export_ok
             THEN Answer("export", request, 500, "", "export_failed", TRUE)
             ELSE Answer("export", request, 200, "", "", TRUE)
    /\ UNCHANGED <<session, disk, uploads>>
    /\ UNCHANGED NotViews

\* one request to preset_columns_view (@require_GET)
PresetColumnsView ==
    /\ entry = "views" /\ requests < MaxRequests
    /\ requests' = requests + 1
    /\ \E m \in Methods : \E key \in PresetKeys : \E load_ok \in BOOLEAN :
         LET request == [method |-> m, file |-> NoFile, preset |-> key] IN
         response' =
             IF m # "GET"
             THEN Answer("preset", request, 405, "", "", FALSE)
             ELSE IF no_file_in_session
             THEN Answer("preset", request, 400, "", "no_file", FALSE)
             ELSE IF key = <<>>
             THEN Answer("preset", request, 400, "", "no_preset", FALSE)
             ELSE IF ~ load_ok
             THEN Answer("preset", request, 500, "", "load_failed", TRUE)
             ELSE Answer("preset", request, 200, "", "", TRUE)
    /\ UNCHANGED <<session, disk, uploads>>
    /\ UNCHANGED NotViews

\* the environment: an uploaded file is gone from the upload directory, so
\* that os.path.exists(excel_path) is false for a stored path
FileRemoved ==
    /\ entry = "views"
    /\ \E f \in disk : disk' = disk \ {f}
    /\ UNCHANGED <<session, uploads, requests, response>>
    /\ UNCHANGED NotViews

NextViews == UploadView \/ ConfigureView \/ ExportView \/ PresetColumnsView \/ FileRemoved
SpecViews == InitViews /\ [][NextViews]_vars

\* ------------------------------------------------ the whole model
Init ==
    InitGate \/ InitLoad \/ InitResolve \/ InitRecords \/ InitSurface \/ InitViews
Next ==
    \/ CellGate \/ ColGate \/ MainGate
    \/ Load \/ Reprocess
    \/ Detect
    \/ GetEmployeeList \/ ExportExcel \/ ExportDocxZip
    \/ PipelineSurfaces \/ ApplyToDf
    \/ UploadView \/ ConfigureView \/ ExportView \/ PresetColumnsView \/ FileRemoved
Spec == Init /\ [][Next]_vars

\* ====================================================== properties
\* The properties state the ranges and rules in their own words, so that
\* they do not follow the definitions above when those change.
InTargetBlock(c) == c \in 2432..2559                   \* U+0980..U+09FF
HasTargetScript(s) == \E i \in 1..Len(s) : InTargetBlock(s[i])
HasAlpha(s) == \E i \in 1..Len(s) : isalpha(s[i])
HasDependentVowel(s) == \E i \in 1..Len(s) : s[i] \in 2494..2508   \* U+09BE..U+09CC
FinalOnlyBeforeScript(s) ==
    \E i \in 1..(Len(s) - 1) : s[i] = 2510 /\ InTargetBlock(s[i + 1])
Cleaned(s) == strip(replace_nl(s))
GateRan == entry = "gate" /\ result.gate # "none" /\ value.kind = "str"
\* the text a gate hands to the converter
TextOf(g, v) == IF g = "main" THEN v.v ELSE IF g = "cell" THEN strip(v.v) ELSE Cleaned(v.v)
Loaded == entry = "load" /\ passes >= 1
PairwiseDistinct(s) == \A i, j \in 1..Len(s) : i # j => s[i] # s[j]

\* C1: the load pipeline is idempotent: applied to its own output, with the
\* converter a fixed function, it gives back the same headers and cells.
C1_Idempotent ==
    (entry = "load" /\ passes = 2) =>
        (unicode_cols = prev.cols /\ cells = prev.cells)

\* C2: a string holding at least one code point of U+0980..U+09FF comes back
\* from the cell gates (utils and main) unchanged, whatever the converter
\* returns for it.
C2_PassThrough ==
    (GateRan /\ result.gate \in {"cell", "main"} /\ HasTargetScript(value.v)) =>
        result.ret = value

C2_Witness ==
    /\ GateRan /\ result.gate = "cell"
    /\ value.v = <<97, 2453>>
    /\ uc[<<97, 2453>>] = ConvOk(<<2453, 2494>>)
    /\ result.ret = value

\* C3: a converter error never leaves the gate: the cell gate returns the
\* original value and the header converter the cleaned original, the load
\* does not raise, keeps every header and cell, keeps the header or cell the
\* converter failed on and still converts the ones it succeeds on.
C3_FailureAbsorbed ==
    /\ (GateRan /\ ~ uc[TextOf(result.gate, value)].ok) =>
          /\ result.ret.kind # "raise"
          /\ result.gate = "cell" => result.ret = value
          /\ result.gate = "col" => result.ret = PyStr(Cleaned(value.v))
    /\ Loaded =>
          /\ ~ load_error
          /\ Len(unicode_cols) = Len(prev.cols)
          /\ Len(cells) = Len(prev.cells)
          /\ \A i \in 1..Len(prev.cells) :
                LET c == prev.cells[i] IN
                (c.kind = "str" /\ strip(c.v) \in DOMAIN uc) =>
                    /\ ~ uc[strip(c.v)].ok => cells[i] = c
                    /\ uc[strip(c.v)] = ConvOk(<<2453, 2494>>)
                          => cells[i] = PyStr(<<2453, 2494>>)
          /\ \A i \in 1..Len(prev.cols) :
                LET h == prev.cols[i] IN
                (~ startswith(h, <<85, 110, 110, 97, 109, 101, 100, 58>>)
                   /\ Cleaned(h) \in DOMAIN uc) =>
                    /\ ~ uc[Cleaned(h)].ok => startswith(unicode_cols[i], Cleaned(h))
                    /\ uc[Cleaned(h)] = ConvOk(<<2453, 2494>>)
                          => startswith(unicode_cols[i], <<2453, 2494>>)

C3_Witness ==
    /\ entry = "load" /\ passes = 1
    /\ prev.cols = <<S_Name, S_Name_1>>
    /\ prev.cells = <<PyStr(S_ab), PyStr(S_ab)>>
    /\ ~ uc[S_Name].ok
    /\ ~ uc[<<97, 98>>].ok
    /\ uc[S_Name_1] = ConvOk(<<2453, 2494>>)
    /\ unicode_cols = <<S_Name, <<2453, 2494>>>>
    /\ cells = prev.cells

C5_NoAlphaPassThrough ==
    (GateRan /\ ~ HasAlpha(value.v)) =>
        result.ret = IF result.gate = "col" THEN PyStr(Cleaned(value.v)) ELSE value

\* C6: after conversion and de-duplication no two emitted headers are equal.
C6_HeadersUnique ==
    Loaded => PairwiseDistinct(unicode_cols)

\* C7: de-duplication keeps length and order; the first occurrence of a
\* converted name is emitted as it is, its k-th later occurrence as the name
\* followed by "_k" (k = 1, 2, ...), never "_0".
C7_SuffixRule ==
    Loaded =>
        LET names == convert_cols(prev.cols, uc) IN
        /\ Len(unicode_cols) = Len(prev.cols)
        /\ \A i \in 1..Len(names) :
              LET k == Cardinality({j \in 1..(i - 1) : names[j] = names[i]}) IN
              unicode_cols[i] =
                  IF k = 0 THEN names[i] ELSE names[i] \o <<95, 48 + k>>

C7_Witness ==
    /\ entry = "load" /\ passes = 1
    /\ prev.cols = <<S_sp_Name, S_Name, S_Name_nl>>
    /\ unicode_cols = <<S_Name, S_Name \o <<95, 49>>, S_Name \o <<95, 50>>>>

\* C8: for a non-empty header list the resolver returns two indices that
\* lie in 0 .. len(headers) - 1; for a single column it returns (0, 0).
C8_InRange ==
    (entry = "resolve" /\ detected.done /\ columns # <<>>) =>
        /\ 0 <= detected.id_idx /\ detected.id_idx < Len(columns)
        /\ 0 <= detected.name_idx /\ detected.name_idx < Len(columns)
        /\ Len(columns) = 1 => (detected.id_idx = 0 /\ detected.name_idx = 0)

C8_Witness ==
    /\ entry = "resolve" /\ detected.done
    /\ columns = <<S_x>>
    /\ detected.id_idx = 0 /\ detected.name_idx = 0

\* C9: with two or more columns the two indices differ.
C9_DistinctIndices ==
    (entry = "resolve" /\ detected.done /\ Len(columns) >= 2) =>
        detected.id_idx # detected.name_idx

\* C10: the id index is the leftmost header that, trimmed and lower-cased,
\* equals "id"; failing that the leftmost header containing an id keyword;
\* failing that min(3, len - 1).
IdKeywordTexts ==
    {<<2474, 2494, 2480, 2509, 2488, 2507, 2472, 2503, 2482>>,
     <<112, 101, 114, 115, 111, 110, 110, 101, 108>>,
     <<101, 109, 112, 95, 105, 100>>,
     <<101, 109, 112, 108, 111, 121, 101, 101, 95, 105, 100>>}
IsExactId(h) == strip(lower(h)) = <<105, 100>>
HasIdKeyword(h) == \E kw \in IdKeywordTexts : contains(kw, strip(lower(h)))
Leftmost(S) == CHOOSE i \in S : \A j \in S : i <= j

C10_IdPriority ==
    (entry = "resolve" /\ detected.done /\ columns # <<>>) =>
        LET E == {i \in 1..Len(columns) : IsExactId(columns[i])}
            K == {i \in 1..Len(columns) : HasIdKeyword(columns[i])}
        IN  /\ detected.id_idx =
                 IF E # {} THEN Leftmost(E) - 1
                 ELSE IF K # {} THEN Leftmost(K) - 1
                 ELSE IF Len(columns) - 1 < 3 THEN Len(columns) - 1 ELSE 3
            /\ columns = <<S_Unnamed0, S_nam, S_id>> =>
                 (detected.id_idx = 2 /\ detected.name_idx = 1)

C10_Witness ==
    /\ entry = "resolve" /\ detected.done
    /\ columns = <<S_emp_id, S_ID_sp, S_id>>
    /\ detected.id_idx = 1

\* C18 as stated: before the collision fix-up the name index is the leftmost
\* header that, trimmed and lower-cased, equals one of "নাম", "name_bn",
\* "name"; a header that only contains a name keyword is never chosen over
\* an exact match.
NameExactTexts ==
    <<<<2472, 2494, 2478>>,
      <<110, 97, 109, 101, 95, 98, 110>>,
      <<110, 97, 109, 101>>>>
IsExactName(h) == \E e \in 1..3 : strip(lower(h)) = NameExactTexts[e]
ExactNameAt == {i \in 1..Len(columns) : IsExactName(columns[i])}
Resolved == entry = "resolve" /\ detected.done
C18_LeftmostExactName ==
    (Resolved /\ ExactNameAt # {}) =>
        detected.name_found = Leftmost(ExactNameAt) - 1

\* C18 amended: the exact names are tried in the order "নাম", "name_bn",
\* "name"; the name index is the leftmost header equal to the first of them
\* that occurs at all, and so never a header that is no exact match.
C18_PriorityExactName ==
    (Resolved /\ ExactNameAt # {}) =>
        LET first == Leftmost({e \in 1..3 : \E i \in 1..Len(columns) :
                                  strip(lower(columns[i])) = NameExactTexts[e]})
        IN  /\ detected.name_found + 1 \in ExactNameAt
            /\ detected.name_found
                  = Leftmost({i \in 1..Len(columns) :
                                 strip(lower(columns[i])) = NameExactTexts[first]}) - 1

\* "Unnamed: 0", "Name", "নাম": the third header is chosen
C18_Witness ==
    /\ Resolved
    /\ columns = <<S_Unnamed0, S_Name, S_nam>>
    /\ detected.name_found = 2

\* C16: _has_invalid_khanda_ta(text) holds exactly when some U+09CE of text
\* has a next code point and that one lies in U+0980..U+09FF; a U+09CE that
\* is last, or followed by a code point outside the block (even with a block
\* code point later), does not reject, so such a converter output with a
\* dependent vowel sign is accepted by each gate.
KhandaFree(c) ==
    \A i \in 1..Len(c) :
        c[i] = 2510 => (i = Len(c) \/ ~ InTargetBlock(c[i + 1]))
Consulted ==
    /\ GateRan /\ strip(value.v) # <<>>
    /\ ~ HasTargetScript(value.v) /\ HasAlpha(value.v)
    /\ uc[TextOf(result.gate, value)].ok
C16_KhandaRule ==
    Consulted =>
        LET c == uc[TextOf(result.gate, value)].text IN
        /\ _has_invalid_khanda_ta(c) <=> FinalOnlyBeforeScript(c)
        /\ (HasDependentVowel(c) /\ KhandaFree(c)) =>
              result.ret = PyStr(IF result.gate = "col" THEN Cleaned(c) ELSE c)

\* U+09CE, a blank, then a vowel sign: accepted
C16_Witness ==
    /\ GateRan /\ result.gate = "cell"
    /\ value.v = <<97>>
    /\ uc[<<97>>] = ConvOk(<<2510, 32, 2494>>)
    /\ result.ret = PyStr(<<2510, 32, 2494>>)

\* C19: each of the dependent vowel signs U+09BE, 09BF, 09C0, 09C1, 09C2,
\* 09C3, 09C4, 09E2, 09E3, 09CB, 09CC lies in the range _has_vowel_sign
\* tests, so a converter output whose only vowel sign is one of them passes
\* the vowel-sign check and is accepted.
EnumeratedSigns ==
    {2494, 2495, 2496, 2497, 2498, 2499, 2500, 2530, 2531, 2507, 2508}
C19_ListedSignsAccepted ==
    Consulted =>
        LET c == uc[TextOf(result.gate, value)].text IN
        (Len(c) = 2 /\ c[1] = 2453 /\ c[2] \in EnumeratedSigns) =>
            /\ _has_vowel_sign(c)
            /\ result.ret = PyStr(c)

\* ------------------------------------------------- records properties
RecordsRun == entry = "records"
\* the text of the cell of row i under the column at 0-based position k
CellText(i, k) == py_str(frame.rows[i][k + 1])
Trimmed(s) == strip(s)

\* C11: on a table without columns, record extraction, the export row filter
\* and the per-record document export each complete without raising.
C11_ZeroColumnsHandled ==
    (RecordsRun /\ frame.cols = <<>>) =>
        /\ employees.done => employees.list = <<>>
        /\ ~ export.raised

\* the rows that give a record: a valid identifier and not a header artifact
IdIdx == _detect_id_name_cols(frame.cols).id_idx
NameIdx == _detect_id_name_cols(frame.cols).name_idx
\* the identifier text and the name text of every row
RoleTexts ==
    CHOOSE c \in {[id |-> [i \in 1..Len(frame.rows) |-> CellText(i, r.id_idx)],
                   name |-> [i \in 1..Len(frame.rows) |-> CellText(i, r.name_idx)]] :
                      r \in {_detect_id_name_cols(frame.cols)}} : TRUE
ValidId(c, i) == Trimmed(c.id[i]) \notin {<<>>, <<110, 97, 110>>}
Qualifies(c, i) ==
    /\ ValidId(c, i)
    /\ ~ is_header_row(Trimmed(c.id[i]), Trimmed(c.name[i]))
QualifyingRows(c) ==
    SelectSeq([i \in 1..Len(frame.rows) |-> i], LAMBDA i : Qualifies(c, i))
Listed == RecordsRun /\ employees.done /\ frame.cols # <<>>

\* C12: every record has a non-empty trimmed identifier other than "nan" and
\* a non-empty display name; an empty trimmed name is replaced by the
\* identifier; the records stand in row order, one for every row with a valid
\* identifier that is not a header-artifact row.
C12_RecordsWellFormed ==
    Listed =>
        \A c \in {RoleTexts} : \A rows \in {QualifyingRows(c)} :
        /\ Len(employees.list) = Len(rows)
        /\ \A k \in 1..Len(employees.list) :
              LET rec == employees.list[k]
                  name == Trimmed(c.name[rows[k]])
              IN  /\ rec.id = Trimmed(c.id[rows[k]])
                  /\ rec.id \notin {<<>>, <<110, 97, 110>>}
                  /\ rec.name # <<>>
                  /\ rec.name = IF name = <<>> THEN rec.id ELSE name

\* two rows, the first with an empty name: two records, the first named by
\* its identifier
C12_Witness ==
    /\ Listed /\ Len(frame.rows) = 2
    /\ Trimmed(CellText(1, NameIdx)) = <<>>
    /\ Len(employees.list) = 2
    /\ employees.list[1].name = employees.list[1].id
    /\ employees.list[2].name # employees.list[2].id

AllRows == [i \in 1..Len(frame.rows) |-> i]
MemberRows(c, ids) ==
    IF ~ ids.given \/ ids.ids = <<>> THEN AllRows
    ELSE SelectSeq(AllRows, LAMBDA i :
             \E k \in 1..Len(ids.ids) : c.id[i] = Trimmed(ids.ids[k]))
ExportStep == RecordsRun /\ export.kind = "none" /\ export'.kind # "none"

\* C14: an export keeps exactly the rows whose identifier cell (as a string)
\* is a member of the trimmed requested identifiers, in row order; with no
\* identifiers, or an empty list, it keeps every row; the table it was given
\* is left as it was.
C14_FilterIsMembership ==
    [][ExportStep => /\ frame' = frame
                     /\ \A c \in {RoleTexts} :
                           export'.rows = MemberRows(c, export'.employee_ids)]_vars

\* a request for " 5" and "ab" keeps the second of two rows and not the first
C14_Witness ==
    /\ RecordsRun /\ export.kind = "excel" /\ ~ export.raised
    /\ export.employee_ids = [given |-> TRUE, ids |-> <<<<32, 53>>, <<97, 98>>>>]
    /\ Len(frame.rows) = 2
    /\ CellText(2, IdIdx) = <<53>>
    /\ export.rows = <<2>>

\* ------------------------------------------------ surfaces properties
SurfacesRan(kind) == entry = "surface" /\ surfaces.kind = kind

SmallInt(t) == \E n \in {py_int(t)} : n # <<>> /\ 0 < n[1] /\ n[1] <= 60
Artifact(c, i) == SmallInt(Trimmed(c.id[i])) /\ SmallInt(Trimmed(c.name[i]))
C17_HeaderRowRule ==
    Listed =>
        \A c \in {RoleTexts} :
        /\ Len(employees.list)
              = Cardinality({i \in 1..Len(frame.rows) :
                                ValidId(c, i) /\ ~ Artifact(c, i)})
        /\ Len(frame.rows) = 1 =>
              (employees.list = <<>> <=> (~ ValidId(c, 1) \/ Artifact(c, 1)))

\* identifier "60" and name "5": the row is skipped
C17_Witness ==
    /\ Listed /\ Len(frame.rows) = 1
    /\ CellText(1, IdIdx) = <<54, 48>>
    /\ CellText(1, NameIdx) = <<53>>
    /\ employees.list = <<>>

\* C20: for every record of the list, an export asked for that record's
\* identifier alone keeps at least the row the record was built from, also
\* when the identifier cell has blanks around it.
C20_RecordSelectsItsRow ==
    (/\ Listed /\ export.kind # "none"
     /\ export.employee_ids.given /\ Len(export.employee_ids.ids) = 1) =>
        \A rows \in {QualifyingRows(RoleTexts)} :
        \A k \in 1..Len(employees.list) :
            employees.list[k].id = export.employee_ids.ids[1] =>
                \E n \in 1..Len(export.rows) : export.rows[n] = rows[k]

\* --------------------------------------------------- views properties
ViewsRun == entry = "views"
\* a step that is one request; response' is the request and its answer
RequestStep == ViewsRun /\ requests' = requests + 1
HasExcelName(f) ==
    \E suffix \in {<<46, 120, 108, 115, 120>>, <<46, 120, 108, 115>>} :
        endswith(lower(f.name), suffix)
RejectedUpload(r) ==
    r.view = "upload" /\ r.request.method = "POST"
    /\ (~ r.request.file.present \/ ~ HasExcelName(r.request.file))
RedirectsToUpload(r) == r.status = 302 /\ r.to = "upload"
\* the spreadsheet is loaded only after an accepted upload stored its path
LoadNeedsUpload == response'.loaded => (uploads > 0 /\ session.excel_path # 0)
RejectedKeepsSession == RejectedUpload(response') => session' = session

\* C21 as stated: in any sequence of requests on one session a spreadsheet is
\* loaded by configure, export or preset-columns only if an earlier upload
\* was accepted and stored excel_path; a rejected upload leaves excel_path
\* and original_filename as they were; with no stored path configure and
\* export redirect to upload and preset-columns answers 400.
C21_SessionFlow ==
    [][RequestStep =>
          /\ LoadNeedsUpload
          /\ RejectedKeepsSession
          /\ session.excel_path = 0 =>
                /\ response'.view \in {"configure", "export"}
                      => RedirectsToUpload(response')
                /\ response'.view = "preset" => response'.status = 400]_vars

\* C21 amended: as stated, but the answers for a missing path are those of
\* a request with the allowed method - configure (any method) and a POST
\* export redirect to upload, a GET preset-columns answers 400; an export
\* that is not POST and a preset-columns that is not GET are answered 405,
\* load nothing and leave the session as it was.
C21_SessionFlowByMethod ==
    [][RequestStep =>
          /\ LoadNeedsUpload
          /\ RejectedKeepsSession
          /\ session.excel_path = 0 =>
                /\ response'.view = "configure" => RedirectsToUpload(response')
                /\ (response'.view = "export" /\ response'.request.method = "POST")
                      => RedirectsToUpload(response')
                /\ (response'.view = "preset" /\ response'.request.method = "GET")
                      => response'.status = 400
          /\ (\/ response'.view = "export" /\ response'.request.method # "POST"
              \/ response'.view = "preset" /\ response'.request.method # "GET")
                => /\ response'.status = 405
                   /\ ~ response'.loaded
                   /\ session' = session]_vars

\* the second request of a session loads the sheet stored by the first
C21_Witness ==
    /\ ViewsRun /\ requests = 2 /\ uploads = 1
    /\ session = [excel_path |-> 1, original_filename |-> <<65, 46, 88, 76, 83>>]
    /\ response.view = "export" /\ response.request.method = "POST"
    /\ response.loaded /\ response.status = 200
====
